---- MODULE Spec2Model ----
(***************************************************************************)
(* Model of the RainBlock verifier core: the BlockGenerator of             *)
(* src/src/gethImport.ts (execution engine, proposal, adoption and the     *)
(* generator loop) and the RPC surface of src/src/verifierService.ts.      *)
(*                                                                         *)
(* Abstractions                                                            *)
(*  - Keccak-256 and RLP are collision free: the hash of a header is the   *)
(*    one-element tuple holding the header, the root hash of a tree is the *)
(*    account map it commits to.                                           *)
(*  - The Merkle-Patricia tree is an account map plus the set of addresses *)
(*    whose path ends in a hash-only stub (pruned); a node bag is the set  *)
(*    of addresses whose path nodes it supplies.                           *)
(*  - Balances and nonces are JavaScript BigInts (no width); only          *)
(*    MAX_256_UNSIGNED is scaled down.                                     *)
(***************************************************************************)
EXTENDS Integers, Sequences, FiniteSets, TLC

\* ------------------------------------------------------------------ bounds
MaxHeight == 2
\* submitTransaction and learnBlock calls over a run, taken together
MaxCalls == 3
\* the same calls in the runs checked for termination
MaxLiveCalls == 2
MaxBatch == 3

\* --------------------------------------------------------------- constants
\* 2^256 - 1 in the source; scaled to 4 bits here
MAX_256_UNSIGNED == 15
NumShards == 16
CONTRACT_CREATION == "CONTRACT_CREATION"

Addr == {"A", "B", "K", "X"}

\* an account: EthereumAccount(nonce, balance, codeHash, storageRoot);
\* code stands for codeHash # EMPTY_STRING_HASH (hasCode())
Absent == [exists |-> FALSE, nonce |-> 0, balance |-> 0, code |-> FALSE]

Acct(n, b, c) == [exists |-> TRUE, nonce |-> n, balance |-> b, code |-> c]

\* the imported genesis state: A funded, B empty, K a contract, X absent
GenesisAccounts ==
  [a \in Addr |->
     CASE a = "A" -> Acct(0, 2, FALSE)
       [] a = "B" -> Acct(0, 0, FALSE)
       [] a = "K" -> Acct(0, 0, TRUE)
       [] OTHER -> Absent]

\* addresses whose leaf lies below the prune depth: after pruneStateCache()
\* their path ends in a hash-only stub
DeepAddrs == {"B"}

GenesisTree == [accts |-> GenesisAccounts, stubs |-> DeepAddrs]

GenesisHeader ==
  [parentHash |-> <<>>, beneficiary |-> "genesis", stateRoot |-> GenesisAccounts,
   transactionsRoot |-> <<>>, blockNumber |-> 0]

\* hashAsBigInt(KECCAK256, RlpEncode(encodeHeaderAsRLP(header)))
HeaderHash(h) == <<h>>

\* tree.rootHash
RootHash(t) == t.accts

\* top nibble of byte 0 of Keccak(address)
TopNibble(a) ==
  CASE a = "A" -> 3
    [] a = "B" -> 12
    [] a = "K" -> 3
    [] OTHER -> 0

EmptyWriteSet == [a \in Addr |-> Absent]

VARIABLES
  config,            \* options.config: maxTxPerBlock (0 = unset), shareBag,
                     \* generateFromAccounts, disableNonceCheck
  running,
  pc,                \* position of generate()
  blockNumber,
  parentHash,
  tree,
  txQueue,           \* sequence of transaction ids
  txData,            \* the TransactionData objects ever queued, by id
  errorCode,         \* TransactionData.errorCode by id ("none" = undefined)
  replies,           \* codes passed to each transaction's callback, in order
  learnedBlocks,     \* Map blockNumber -> block
  neighborBlock,     \* {} (undefined) or {block}
  blockResolver,     \* TRUE once getBlockAdvertisementPromise installed it
  learnedNodes,
  lastLearnedNodes,
  blockTransactions, \* the batch of the height in progress (ids)
  verifyOnly,        \* mode of the execution pass in progress
  execBatch,         \* transactions the pass has still to process
  writeSet,
  order,
  nodesUsed,
  shareBag,          \* keys of shareBag, which are the keys of bufferBag
  lastExec,          \* <<>> or <<the last transaction processed, its outcome>>
  executionResult,   \* {} or {result of the last completed pass}
  nodesAdvertised,   \* {} or {the nodes the pass handed to advertiseNodesToNeighbors}
  alt,               \* {} or {the block being adopted}
  shortcut,          \* TRUE while the shortcut branch of the loop runs
  shardMsgs,         \* the UpdateMsgs of the proposal in flight, by shard
  advertised,        \* blocks handed to advertiseBlockToNeighbors
  chain,             \* history: the blocks finalized so far
  learnCount,        \* number of learnBlock calls so far
  race,              \* {} or {the value Promise.race settled with}
  rejected,          \* replies sent by the catch branch of submitTransaction
  delivered          \* blocks for this height handed to blockResolver during the race

vars == <<config, running, pc, blockNumber, parentHash, tree, txQueue, txData,
          errorCode, replies, learnedBlocks, neighborBlock, blockResolver,
          learnedNodes, lastLearnedNodes, blockTransactions, verifyOnly,
          execBatch, writeSet, order, nodesUsed, shareBag, lastExec,
          executionResult, nodesAdvertised, alt, shortcut, shardMsgs, advertised, chain,
          learnCount, race, rejected, delivered>>

genVars == <<running, blockNumber, parentHash, tree, txQueue, txData, replies,
             learnedBlocks, neighborBlock, blockResolver, learnedNodes,
             lastLearnedNodes, blockTransactions, alt, shortcut, shardMsgs,
             advertised, chain, learnCount, race, rejected, delivered>>

\* ------------------------------------------------------- execution engine

\* tree.getFromCache(hashedAddress, nodesUsed, nodeBag, lastLearnedNodes):
\* a stub is resolved from the bag, then from the fallback bag, and recorded
\* in nodesUsed; an unresolved stub is a structural miss
GetFromCache(t, a, used, bag, fallback) ==
  IF a \in t.stubs /\ a \notin (bag \cup fallback)
    THEN [status |-> "miss", account |-> Absent, used |-> used]
    ELSE [status |-> IF t.accts[a].exists THEN "ok" ELSE "notfound",
          account |-> t.accts[a],
          used |-> IF a \in t.stubs THEN used \cup {a} ELSE used]

\* getAccount going to the tree although the write-set holds the account
GetAccountTreeFirst(ws, t, a, bag, fallback, used, generate, generateNonce) ==
  LET r == GetFromCache(t, a, used, bag, fallback) IN
  CASE r.status = "ok" ->
         [ok |-> TRUE, account |-> r.account, used |-> r.used,
          optimistic |-> FALSE]
    [] ws[a].exists ->
         [ok |-> TRUE, account |-> ws[a], used |-> used, optimistic |-> TRUE]
    [] r.status = "notfound" /\ generate ->
         [ok |-> TRUE,
          account |-> Acct(generateNonce, MAX_256_UNSIGNED, FALSE),
          used |-> r.used, optimistic |-> FALSE]
    [] OTHER ->
         [ok |-> FALSE, account |-> Absent, used |-> r.used,
          optimistic |-> FALSE]

GetAccount(ws, t, a, bag, fallback, used, generate, generateNonce) ==
  IF ws[a].exists
    THEN [ok |-> TRUE, account |-> ws[a], used |-> used, optimistic |-> TRUE]
    ELSE LET r == GetFromCache(t, a, used, bag, fallback) IN
         CASE r.status = "ok" ->
                [ok |-> TRUE, account |-> r.account, used |-> r.used,
                 optimistic |-> FALSE]
           [] r.status = "notfound" /\ generate ->
                [ok |-> TRUE,
                 account |-> Acct(generateNonce, MAX_256_UNSIGNED, FALSE),
                 used |-> r.used, optimistic |-> FALSE]
           [] OTHER ->
                [ok |-> FALSE, account |-> Absent, used |-> r.used,
                 optimistic |-> FALSE]

\* writeSet.set(address, {hashedAddress, account, nonce, balance})
UpdateWriteSet(ws, a, account) == [ws EXCEPT ![a] = account]

\* the body of the for loop of orderAndExecuteTransactions for one
\* transaction: the outcome code, the write-set and the used nodes after it
Invalid(ws, used) == [code |-> "INVALID", ws |-> ws, used |-> used]

\* the simple transfer that stores the debited sender and leaves the
\* recipient as it was read
TransferWriteSetDebitOnly(ws, tx, fromR, toR) ==
  UpdateWriteSet(UpdateWriteSet(ws, tx.to, toR.account), tx.from,
                 [fromR.account EXCEPT !.nonce = @ + 1, !.balance = @ - tx.value])

TransferWriteSet(ws, tx, fromR, toR) ==
  LET \* both reads returned the one object held by the write-set
      same == tx.from = tx.to /\ fromR.optimistic
      from1 == [fromR.account EXCEPT !.nonce = @ + 1, !.balance = @ - tx.value]
      to1 == IF same THEN [from1 EXCEPT !.balance = @ + tx.value]
                     ELSE [toR.account EXCEPT !.balance = @ + tx.value]
      from2 == IF same THEN to1 ELSE from1
  IN UpdateWriteSet(UpdateWriteSet(ws, tx.to, to1), tx.from, from2)

\* the loop body recording the sender's new nonce before the recipient is
\* looked up
ExecTxEager(ws, t, used, tx, proofs, fallback, cfg) ==
  LET fromR == GetAccount(ws, t, tx.from, proofs, fallback, used,
                          cfg.generateFromAccounts, tx.nonce)
      bumped == UpdateWriteSet(ws, tx.from,
                               [fromR.account EXCEPT !.nonce = @ + 1])
  IN IF ~fromR.ok THEN Invalid(ws, fromR.used)
     ELSE IF ~cfg.disableNonceCheck /\ tx.nonce # fromR.account.nonce
       THEN Invalid(ws, fromR.used)
     ELSE IF tx.to = CONTRACT_CREATION THEN Invalid(bumped, fromR.used)
     ELSE LET toR == GetAccount(ws, t, tx.to, proofs, fallback, fromR.used,
                                FALSE, 0)
          IN IF ~toR.ok THEN Invalid(bumped, toR.used)
             ELSE IF toR.account.code
               THEN [code |-> "SUCCESS", ws |-> ws, used |-> toR.used]
             ELSE [code |-> "SUCCESS",
                   ws |-> TransferWriteSet(ws, tx, fromR, toR),
                   used |-> toR.used]

\* the loop body that never compares the nonce of the transaction with the
\* nonce of the sender
ExecTxNonceBlind(ws, t, used, tx, proofs, fallback, cfg) ==
  LET fromR == GetAccount(ws, t, tx.from, proofs, fallback, used,
                          cfg.generateFromAccounts, tx.nonce)
  IN IF ~fromR.ok THEN Invalid(ws, fromR.used)
     ELSE IF tx.to = CONTRACT_CREATION THEN Invalid(ws, fromR.used)
     ELSE LET toR == GetAccount(ws, t, tx.to, proofs, fallback, fromR.used,
                                FALSE, 0)
          IN IF ~toR.ok THEN Invalid(ws, toR.used)
             ELSE IF toR.account.code
               THEN [code |-> "SUCCESS", ws |-> ws, used |-> toR.used]
             ELSE [code |-> "SUCCESS",
                   ws |-> TransferWriteSet(ws, tx, fromR, toR),
                   used |-> toR.used]

ExecTx(ws, t, used, tx, proofs, fallback, cfg) ==
  LET fromR == GetAccount(ws, t, tx.from, proofs, fallback, used,
                          cfg.generateFromAccounts, tx.nonce)
  IN IF ~fromR.ok THEN Invalid(ws, fromR.used)
     ELSE IF ~cfg.disableNonceCheck /\ tx.nonce # fromR.account.nonce
       THEN Invalid(ws, fromR.used)
     ELSE IF tx.to = CONTRACT_CREATION THEN Invalid(ws, fromR.used)
     ELSE LET toR == GetAccount(ws, t, tx.to, proofs, fallback, fromR.used,
                                FALSE, 0)
          IN IF ~toR.ok THEN Invalid(ws, toR.used)
             ELSE IF toR.account.code
               THEN [code |-> "SUCCESS", ws |-> ws, used |-> toR.used]
             ELSE [code |-> "SUCCESS",
                   ws |-> TransferWriteSet(ws, tx, fromR, toR),
                   used |-> toR.used]

\* generateCopyOnWriteTree: tree.batchCOWwithNodeBag(puts, usedNodes, nodeBag,
\* lastLearnedNodes); the nodes resolved during the pass are part of the copy
\* the copy built over the genesis state instead of the live tree
GenerateCopyOnWriteTreeFromGenesis(t, ws, used) ==
  [accts |-> [a \in Addr |-> IF ws[a].exists THEN ws[a] ELSE GenesisAccounts[a]],
   stubs |-> t.stubs \ used]

GenerateCopyOnWriteTree(t, ws, used) ==
  [accts |-> [a \in Addr |-> IF ws[a].exists THEN ws[a] ELSE t.accts[a]],
   stubs |-> t.stubs \ used]

\* tree.pruneStateCache()
PruneStateCache(t) == [t EXCEPT !.stubs = DeepAddrs]


\* ------------------------------------------------------------ inputs

\* configurations of options.config the generator is run with
Config(m, s, g, d) ==
  [maxTxPerBlock |-> m, shareBag |-> s, generateFromAccounts |-> g,
   disableNonceCheck |-> d]

MainConfigs == {Config(0, FALSE, FALSE, FALSE), Config(1, TRUE, FALSE, FALSE)}

Tx(f, t, n, v) == [from |-> f, to |-> t, nonce |-> n, value |-> v]

\* what clients submit: a transaction and the witnesses it carries
Submissions ==
  {<<Tx("A", "B", 0, 1), {"B"}>>, <<Tx("A", "B", 1, 1), {}>>}

BogusRoot == [a \in Addr |-> Absent]

\* the parent of the block of a peer that builds on the genesis block: our
\* parent at the first height, a parent that is not ours afterwards
ForkParent == HeaderHash(GenesisHeader)

\* the state root an honest peer holding tree t computes for a transaction
\* list: the pass run with every node at hand
RECURSIVE HonestWriteSet(_, _, _, _)
HonestWriteSet(ws, t, txs, cfg) ==
  IF txs = <<>> THEN ws
  ELSE HonestWriteSet(ExecTx(ws, t, {}, Head(txs), Addr, {}, cfg).ws, t,
                      Tail(txs), cfg)

HonestRoot(t, txs, cfg) ==
  RootHash(GenerateCopyOnWriteTree(t, HonestWriteSet(EmptyWriteSet, t, txs, cfg), {}))

\* ------------------------------------------------------------ initial state

\* the generator after initialize(): the genesis block and state are loaded
Init ==
  /\ config \in MainConfigs
  /\ running = TRUE
  /\ pc = "head"
  /\ blockNumber = GenesisHeader.blockNumber + 1
  /\ parentHash = HeaderHash(GenesisHeader)
  /\ tree = PruneStateCache(GenesisTree)
  /\ txQueue = <<>>
  /\ txData = <<>>
  /\ errorCode = <<>>
  /\ replies = <<>>
  /\ learnedBlocks = <<>>
  /\ neighborBlock = {}
  /\ blockResolver = FALSE
  /\ learnedNodes = {}
  /\ lastLearnedNodes = {}
  /\ blockTransactions = <<>>
  /\ verifyOnly = FALSE
  /\ execBatch = <<>>
  /\ writeSet = EmptyWriteSet
  /\ order = <<>>
  /\ nodesUsed = {}
  /\ shareBag = {}
  /\ lastExec = <<>>
  /\ executionResult = {}
  /\ nodesAdvertised = {}
  /\ alt = {}
  /\ shortcut = FALSE
  /\ shardMsgs = <<>>
  /\ advertised = <<>>
  /\ chain = <<>>
  /\ learnCount = 0
  /\ race = {}
  /\ rejected = 0
  /\ delivered = {}

\* generate() has not been called yet
NotStarted == pc = "head" /\ ~blockResolver /\ chain = <<>>

\* generate() is suspended on the timer of the race or on the shard replies
Awaiting == pc \in {"race", "shards"}

\* the positions at which the event loop runs an RPC handler: the generator
\* is not started, suspended, returned or rejected
Suspended == NotStarted \/ Awaiting \/ pc \in {"done", "failed"}

execVars == <<verifyOnly, execBatch, writeSet, order, nodesUsed, shareBag,
              lastExec, executionResult, nodesAdvertised>>

\* ------------------------------------------------------------ RPC surface

\* submitTransaction and learnBlock calls so far
Calls == Len(txData) + learnCount + rejected

\* addTransaction of a submitTransaction that replies when it queues
AddTransactionReplying(tx, proofs) ==
  /\ Suspended
  /\ Calls < MaxCalls
  /\ LET id == Len(txData) + 1 IN
     /\ txData' = Append(txData, [id |-> id, tx |-> tx, proofs |-> proofs])
     /\ errorCode' = Append(errorCode, "none")
     /\ replies' = Append(replies, <<"INVALID">>)
     /\ txQueue' = Append(txQueue, id)
  /\ UNCHANGED <<config, running, pc, blockNumber, parentHash, tree,
                 learnedBlocks, neighborBlock, blockResolver, learnedNodes,
                 lastLearnedNodes, blockTransactions, alt, shortcut, shardMsgs,
                 advertised, chain, learnCount, race, rejected, delivered>>
  /\ UNCHANGED execVars

\* addTransaction, reached from submitTransaction after a successful decode
AddTransaction(tx, proofs) ==
  /\ Suspended
  /\ Calls < MaxCalls
  /\ LET id == Len(txData) + 1 IN
     /\ txData' = Append(txData, [id |-> id, tx |-> tx, proofs |-> proofs])
     /\ errorCode' = Append(errorCode, "none")
     /\ replies' = Append(replies, <<>>)
     /\ txQueue' = Append(txQueue, id)
  /\ UNCHANGED <<config, running, pc, blockNumber, parentHash, tree,
                 learnedBlocks, neighborBlock, blockResolver, learnedNodes,
                 lastLearnedNodes, blockTransactions, alt, shortcut, shardMsgs,
                 advertised, chain, learnCount, race, rejected, delivered>>
  /\ UNCHANGED execVars

\* the catch branch of submitTransaction: decoding the transaction or a
\* witness threw, and the callback of the request is invoked with INVALID
RejectTransaction ==
  /\ Suspended
  /\ Calls < MaxCalls
  /\ rejected' = rejected + 1
  /\ UNCHANGED <<config, running, pc, blockNumber, parentHash, tree, txQueue,
                 txData, errorCode, replies, learnedBlocks, neighborBlock,
                 blockResolver, learnedNodes, lastLearnedNodes,
                 blockTransactions, alt, shortcut, shardMsgs, advertised,
                 chain, learnCount, race, delivered>>
  /\ UNCHANGED execVars

\* submitTransaction: the request decodes and is queued, or it does not
SubmitTransaction ==
  \/ \E s \in Submissions : AddTransaction(s[1], s[2])
  \/ RejectTransaction

LearnNodeOp(n) ==
  /\ Suspended
  /\ learnedNodes' = learnedNodes \cup {n}
  /\ UNCHANGED <<config, running, pc, blockNumber, parentHash, tree, txQueue,
                 txData, errorCode, replies, learnedBlocks, neighborBlock,
                 blockResolver, lastLearnedNodes, blockTransactions, alt,
                 shortcut, shardMsgs, advertised, chain, learnCount, race, rejected, delivered>>
  /\ UNCHANGED execVars

LearnNode == \E n \in DeepAddrs : LearnNodeOp(n)

\* learnedBlocks.set(b.header.blockNumber, b)
MapSet(m, k, v) == [x \in DOMAIN m \cup {k} |-> IF x = k THEN v ELSE m[x]]

\* a delete that leaves the map as it is
MapKeep(m, k) == m

\* learnedBlocks.delete(k)
MapDelete(m, k) == [x \in DOMAIN m \ {k} |-> m[x]]

\* a guard that also stores a block for the height in progress
IsFutureOrCurrentBlock(b) == b.header.blockNumber >= blockNumber

\* the guard of learnBlock for storing a block
IsFutureBlock(b) == b.header.blockNumber > blockNumber

\* learnBlock moving the generator to the height of the block at once
LearnBlockOpFastForward(b) ==
  /\ Suspended
  /\ Calls < MaxCalls
  /\ learnCount' = learnCount + 1
  /\ learnedBlocks' = IF IsFutureBlock(b)
                        THEN MapSet(learnedBlocks, b.header.blockNumber, b)
                        ELSE learnedBlocks
  /\ blockNumber' = IF IsFutureBlock(b) THEN b.header.blockNumber ELSE blockNumber
  /\ neighborBlock' = IF b.header.parentHash = parentHash /\ blockResolver
                        THEN {b} ELSE neighborBlock
  /\ delivered' = IF /\ b.header.parentHash = parentHash /\ blockResolver
                       /\ pc = "race" /\ b.header.blockNumber = blockNumber
                      THEN delivered \cup {b} ELSE delivered
  /\ UNCHANGED <<config, running, pc, parentHash, tree, txQueue,
                 txData, errorCode, replies, blockResolver, learnedNodes,
                 lastLearnedNodes, blockTransactions, alt, shortcut, shardMsgs,
                 advertised, chain, race, rejected>>
  /\ UNCHANGED execVars

LearnBlockOp(b) ==
  /\ Suspended
  /\ Calls < MaxCalls
  /\ learnCount' = learnCount + 1
  /\ learnedBlocks' = IF IsFutureBlock(b)
                        THEN MapSet(learnedBlocks, b.header.blockNumber, b)
                        ELSE learnedBlocks
  /\ neighborBlock' = IF b.header.parentHash = parentHash /\ blockResolver
                        THEN {b} ELSE neighborBlock
  /\ delivered' = IF /\ b.header.parentHash = parentHash /\ blockResolver
                       /\ pc = "race" /\ b.header.blockNumber = blockNumber
                      THEN delivered \cup {b} ELSE delivered
  /\ UNCHANGED <<config, running, pc, blockNumber, parentHash, tree, txQueue,
                 txData, errorCode, replies, blockResolver, learnedNodes,
                 lastLearnedNodes, blockTransactions, alt, shortcut, shardMsgs,
                 advertised, chain, race, rejected>>
  /\ UNCHANGED execVars

\* the blocks a peer may advertise while the verifier is at this state: for
\* the current height on our parent, one with a stateRoot no execution
\* yields and one with a transaction and the root an honest peer computes;
\* and one for the next height built on the genesis block
PeerBlocks ==
  { [header |-> [parentHash |-> q[1], beneficiary |-> "peer",
                 stateRoot |-> q[4], transactionsRoot |-> q[3],
                 blockNumber |-> q[2]],
     transactions |-> q[3]] :
      q \in { <<parentHash, blockNumber, <<>>, BogusRoot>>,
              <<parentHash, blockNumber, <<Tx("A", "B", 0, 1)>>,
                HonestRoot(tree, <<Tx("A", "B", 0, 1)>>, config)>>,
              <<ForkParent, blockNumber + 1, <<>>, HonestRoot(tree, <<>>, config)>> } }

LearnBlock == \E b \in PeerBlocks : LearnBlockOp(b)

\* running is a public field: the owner of the generator clears it
Stop ==
  /\ NotStarted \/ Awaiting
  /\ running
  /\ running' = FALSE
  /\ UNCHANGED <<config, pc, blockNumber, parentHash, tree, txQueue, txData,
                 errorCode, replies, learnedBlocks, neighborBlock,
                 blockResolver, learnedNodes, lastLearnedNodes,
                 blockTransactions, alt, shortcut, shardMsgs, advertised,
                 chain, learnCount, race, rejected, delivered>>
  /\ UNCHANGED execVars


\* ------------------------------------------------------------ generator loop

Min(a, b) == IF a < b THEN a ELSE b

\* blockTransactions of generate(): the head of the queue
GatherBatch(q, cfg) ==
  IF cfg.maxTxPerBlock # 0 THEN SubSeq(q, 1, Min(cfg.maxTxPerBlock, Len(q))) ELSE q

\* a gathering that leaves nothing in txQueue whatever maxTxPerBlock is
GatherRestEmpty(q, cfg) == <<>>

\* what generate() leaves in txQueue
GatherRest(q, cfg) ==
  IF cfg.maxTxPerBlock # 0 THEN SubSeq(q, cfg.maxTxPerBlock + 1, Len(q)) ELSE <<>>

\* the locals of orderAndExecuteTransactions at its entry
BeginPass(batch, verify) ==
  /\ verifyOnly' = verify
  /\ execBatch' = batch
  /\ writeSet' = EmptyWriteSet
  /\ order' = <<>>
  /\ nodesUsed' = {}
  /\ shareBag' = {}
  /\ lastExec' = <<>>
  /\ executionResult' = {}
  /\ nodesAdvertised' = {}

\* the locals of an iteration of the loop go out of scope
EndIteration ==
  /\ verifyOnly' = FALSE
  /\ execBatch' = <<>>
  /\ writeSet' = EmptyWriteSet
  /\ order' = <<>>
  /\ nodesUsed' = {}
  /\ shareBag' = {}
  /\ lastExec' = <<>>
  /\ executionResult' = {}
  /\ nodesAdvertised' = {}
  /\ blockTransactions' = <<>>
  /\ alt' = {}
  /\ shortcut' = FALSE
  /\ shardMsgs' = <<>>
  /\ race' = {}
  /\ delivered' = {}

\* the transactions adoptAlternativeBlock builds from a peer block
AltTxData(b) ==
  [i \in 1..Len(b.transactions) |->
     [id |-> 0, tx |-> b.transactions[i], proofs |-> {}]]

\* while (this.running) is false
ExitLoop ==
  /\ pc = "head"
  /\ ~running
  /\ pc' = "done"
  /\ UNCHANGED <<config, errorCode>>
  /\ UNCHANGED genVars
  /\ UNCHANGED execVars

\* the shortcut branch up to the call of orderAndExecuteTransactions
ShortcutAdopt ==
  /\ pc = "head"
  /\ running
  /\ blockNumber \in DOMAIN learnedBlocks
  /\ blockNumber <= MaxHeight
  /\ alt' = {learnedBlocks[blockNumber]}
  /\ shortcut' = TRUE
  /\ BeginPass(AltTxData(learnedBlocks[blockNumber]), TRUE)
  /\ pc' = "exec"
  /\ UNCHANGED <<config, running, blockNumber, parentHash, tree, txQueue,
                 txData, errorCode, replies, learnedBlocks, neighborBlock,
                 blockResolver, learnedNodes, lastLearnedNodes,
                 blockTransactions, shardMsgs, advertised, chain, learnCount, race, rejected, delivered>>

\* the else branch entered without the test of running
GatherIgnoringRunning ==
  /\ pc = "head"
  /\ blockNumber \notin DOMAIN learnedBlocks
  /\ blockNumber <= MaxHeight
  /\ blockResolver' = TRUE
  /\ blockTransactions' = GatherBatch(txQueue, config)
  /\ txQueue' = GatherRest(txQueue, config)
  /\ shortcut' = FALSE
  /\ BeginPass([i \in 1..Len(GatherBatch(txQueue, config)) |->
                  txData[GatherBatch(txQueue, config)[i]]], FALSE)
  /\ pc' = "exec"
  /\ UNCHANGED <<config, running, blockNumber, parentHash, tree, txData,
                 errorCode, replies, learnedBlocks, neighborBlock,
                 learnedNodes, lastLearnedNodes, alt, shardMsgs, advertised,
                 chain, learnCount, race, rejected, delivered>>

\* the else branch up to the call of orderAndExecuteTransactions
Gather ==
  /\ pc = "head"
  /\ running
  /\ blockNumber \notin DOMAIN learnedBlocks
  /\ blockNumber <= MaxHeight
  /\ blockResolver' = TRUE
  /\ blockTransactions' = GatherBatch(txQueue, config)
  /\ txQueue' = GatherRest(txQueue, config)
  /\ shortcut' = FALSE
  /\ BeginPass([i \in 1..Len(GatherBatch(txQueue, config)) |->
                  txData[GatherBatch(txQueue, config)[i]]], FALSE)
  /\ pc' = "exec"
  /\ UNCHANGED <<config, running, blockNumber, parentHash, tree, txData,
                 errorCode, replies, learnedBlocks, neighborBlock,
                 learnedNodes, lastLearnedNodes, alt, shardMsgs, advertised,
                 chain, learnCount, race, rejected, delivered>>

\* the proofs a transaction is executed with
ProofsFor(td, verify, cfg, share) ==
  IF verify THEN learnedNodes
  ELSE IF cfg.shareBag THEN share \cup td.proofs ELSE td.proofs

\* one iteration of the for loop of orderAndExecuteTransactions
ExecuteTx ==
  /\ pc = "exec"
  /\ execBatch # <<>>
  /\ LET td == Head(execBatch)
         r == ExecTx(writeSet, tree, nodesUsed, td.tx,
                     ProofsFor(td, verifyOnly, config, shareBag),
                     lastLearnedNodes, config)
     IN /\ shareBag' = IF verifyOnly THEN shareBag ELSE shareBag \cup td.proofs
        /\ writeSet' = r.ws
        /\ nodesUsed' = r.used
        /\ order' = IF r.code = "SUCCESS" THEN Append(order, td) ELSE order
        /\ errorCode' = IF td.id \in DOMAIN errorCode
                          THEN [errorCode EXCEPT ![td.id] = r.code]
                          ELSE errorCode
        /\ lastExec' = <<[td |-> td, code |-> r.code, before |-> writeSet]>>
  /\ execBatch' = Tail(execBatch)
  /\ UNCHANGED <<config, pc, verifyOnly, executionResult, nodesAdvertised>>
  /\ UNCHANGED genVars

\* a used node has no bytes in bufferBag
MissingUsedNode(used, buffer) == \E n \in used : n \notin buffer

\* the end of the pass without the test that every used node has bytes in
\* bufferBag
FinishExecUnchecked ==
  /\ pc = "exec"
  /\ execBatch = <<>>
  /\ pc' = "executed"
  /\ executionResult' =
       {[stateRoot |-> RootHash(GenerateCopyOnWriteTree(tree, writeSet, nodesUsed)),
         order |-> order,
         writeSet |-> writeSet,
         newTree |-> GenerateCopyOnWriteTree(tree, writeSet, nodesUsed)]}
  /\ nodesAdvertised' = IF verifyOnly THEN {} ELSE {nodesUsed}
  /\ UNCHANGED <<config, errorCode, verifyOnly, execBatch, writeSet, order,
                 nodesUsed, shareBag, lastExec>>
  /\ UNCHANGED genVars

\* the end of orderAndExecuteTransactions: the copy-on-write tree, the
\* re-advertisement of the used nodes and the result
FinishExec ==
  /\ pc = "exec"
  /\ execBatch = <<>>
  /\ IF ~verifyOnly /\ MissingUsedNode(nodesUsed, shareBag)
       THEN /\ pc' = "failed"
            /\ executionResult' = executionResult
            /\ nodesAdvertised' = nodesAdvertised
       ELSE /\ pc' = "executed"
            /\ executionResult' =
                 {[stateRoot |-> RootHash(GenerateCopyOnWriteTree(tree, writeSet, nodesUsed)),
                   order |-> order,
                   writeSet |-> writeSet,
                   newTree |-> GenerateCopyOnWriteTree(tree, writeSet, nodesUsed)]}
            /\ nodesAdvertised' = IF verifyOnly THEN {} ELSE {nodesUsed}
  /\ UNCHANGED <<config, errorCode, verifyOnly, execBatch, writeSet, order,
                 nodesUsed, shareBag, lastExec>>
  /\ UNCHANGED genVars

Result == CHOOSE r \in executionResult : TRUE

\* the reply code that reports every executed transaction as a success
ReplyCodeSuccess(c) == IF c = "none" THEN "INVALID" ELSE "SUCCESS"

\* reply.setCode(tx.errorCode === undefined ? INVALID : tx.errorCode)
ReplyCode(c) == IF c = "none" THEN "INVALID" ELSE c

\* a replyToClients that invokes no callback
ReplyToNobody(rep, batch, codes) == rep

\* replyToClients: every callback of the batch is invoked with its code
ReplyToClients(rep, batch, codes) ==
  [id \in DOMAIN rep |->
     IF \E i \in DOMAIN batch : batch[i] = id
       THEN Append(rep[id], ReplyCode(codes[id]))
       ELSE rep[id]]

\* calculateTransactionsRoot: the tree of index -> txBinary
CalculateTransactionsRoot(ord) == [i \in 1..Len(ord) |-> ord[i].tx]

\* from the return of the pass to the await of Promise.race
StartRace ==
  /\ pc = "executed"
  /\ ~verifyOnly
  /\ replies' = ReplyToClients(replies, blockTransactions, errorCode)
  /\ pc' = "race"
  /\ UNCHANGED <<config, running, blockNumber, parentHash, tree, txQueue,
                 txData, errorCode, learnedBlocks, neighborBlock,
                 blockResolver, learnedNodes, lastLearnedNodes,
                 blockTransactions, alt, shortcut, shardMsgs, advertised,
                 chain, learnCount, race, rejected, delivered>>
  /\ UNCHANGED execVars

\* the header generateProofOfStake resolves with
ProofOfStakeHeader ==
  [parentHash |-> parentHash, beneficiary |-> "self",
   stateRoot |-> Result.stateRoot,
   transactionsRoot |-> CalculateTransactionsRoot(Result.order),
   blockNumber |-> blockNumber]

\* a block that lists the transactions of the order last to first
EncodeBlockReversed(h, ord) ==
  [header |-> h,
   transactions |-> [i \in 1..Len(ord) |-> ord[Len(ord) + 1 - i].tx]]

\* encodeBlock(header, execution.order.map(data => data.txRlp), [])
EncodeBlock(h, ord) ==
  [header |-> h, transactions |-> [i \in 1..Len(ord) |-> ord[i].tx]]

\* the test taking any recorded neighbor block for a lost race
WeWonUnlessAnyNeighbor == neighborBlock = {}

\* the condition generate() tests after the race
WeWon ==
  ~(neighborBlock # {} /\ \A b \in neighborBlock : b.header.blockNumber = blockNumber)

\* the UpdateMsg for shard i with the test on the low two bits of the nibble
UpdateMsgForLowBits(i, block, t, ws) ==
  [rlpBlock |-> block,
   merkleTreeNodes |-> RootHash(t),
   operations |-> {[account |-> x, balance |-> ws[x].balance, nonce |-> ws[x].nonce] :
                     x \in {y \in Addr : ws[y].exists /\ TopNibble(y) % 4 = i % 4}}]

\* the UpdateMsg proposeBlock builds for shard i
UpdateMsgFor(i, block, t, ws) ==
  [rlpBlock |-> block,
   merkleTreeNodes |-> RootHash(t),
   operations |-> {[account |-> a, balance |-> ws[a].balance, nonce |-> ws[a].nonce] :
                     a \in {x \in Addr : ws[x].exists /\ TopNibble(x) = i}}]

\* the winning branch with proposeBlock not awaiting the shard replies: the
\* block is installed while its UpdateMsgs are outstanding
ProposeWithoutAwait ==
  /\ pc = "race"
  /\ WeWon
  /\ learnedNodes' = {}
  /\ lastLearnedNodes' = learnedNodes
  /\ shardMsgs' = [i \in 0..(NumShards - 1) |->
                     UpdateMsgFor(i, EncodeBlock(ProofOfStakeHeader, Result.order),
                                  tree, Result.writeSet)]
  /\ advertised' = Append(advertised, EncodeBlock(ProofOfStakeHeader, Result.order))
  /\ parentHash' = HeaderHash(ProofOfStakeHeader)
  /\ tree' = PruneStateCache(Result.newTree)
  /\ blockNumber' = blockNumber + 1
  /\ chain' = Append(chain, [block |-> EncodeBlock(ProofOfStakeHeader, Result.order),
                             kind |-> "own"])
  /\ pc' = "head"
  /\ verifyOnly' = FALSE
  /\ execBatch' = <<>>
  /\ writeSet' = EmptyWriteSet
  /\ order' = <<>>
  /\ nodesUsed' = {}
  /\ shareBag' = {}
  /\ lastExec' = <<>>
  /\ executionResult' = {}
  /\ nodesAdvertised' = {}
  /\ blockTransactions' = <<>>
  /\ alt' = {}
  /\ shortcut' = FALSE
  /\ race' = {}
  /\ delivered' = {}
  /\ UNCHANGED <<config, running, txQueue, txData, errorCode, replies,
                 learnedBlocks, neighborBlock, blockResolver, learnCount,
                 rejected>>

\* the timer fires and we win: the learned-node tables rotate and
\* proposeBlock runs up to its await of the shard replies
Propose ==
  /\ pc = "race"
  /\ WeWon
  /\ learnedNodes' = {}
  /\ lastLearnedNodes' = learnedNodes
  /\ shardMsgs' = [i \in 0..(NumShards - 1) |->
                     UpdateMsgFor(i, EncodeBlock(ProofOfStakeHeader, Result.order),
                                  tree, Result.writeSet)]
  /\ advertised' = Append(advertised, EncodeBlock(ProofOfStakeHeader, Result.order))
  /\ pc' = "shards"
  /\ race' = {ProofOfStakeHeader}
  /\ UNCHANGED <<config, running, blockNumber, parentHash, tree, txQueue,
                 txData, errorCode, replies, learnedBlocks, neighborBlock,
                 blockResolver, blockTransactions, alt, shortcut, chain,
                 learnCount, rejected, delivered>>
  /\ UNCHANGED execVars

\* the block proposeBlock is waiting on
Proposed == shardMsgs[0].rlpBlock

\* every shard answered without error: the rest of the winning branch and
\* the prune that ends the iteration
ShardsSucceed ==
  /\ pc = "shards"
  /\ parentHash' = HeaderHash(Proposed.header)
  /\ tree' = PruneStateCache(Result.newTree)
  /\ blockNumber' = blockNumber + 1
  /\ chain' = Append(chain, [block |-> Proposed, kind |-> "own"])
  /\ pc' = "head"
  /\ EndIteration
  /\ UNCHANGED <<config, running, txQueue, txData, errorCode, replies,
                 learnedBlocks, neighborBlock, blockResolver, learnedNodes,
                 lastLearnedNodes, advertised, learnCount, rejected>>

\* a shard answered with an error: Promise.all rejects, and with it
\* proposeBlock and generate()
ShardFails ==
  /\ pc = "shards"
  /\ pc' = "failed"
  /\ UNCHANGED <<config, errorCode>>
  /\ UNCHANGED genVars
  /\ UNCHANGED execVars

\* the timer fires and a neighbor block for this height is recorded:
\* adoptAlternativeBlock up to the call of orderAndExecuteTransactions
LoseRace ==
  /\ pc = "race"
  /\ ~WeWon
  /\ alt' = neighborBlock
  /\ BeginPass(AltTxData(CHOOSE b \in neighborBlock : TRUE), TRUE)
  /\ pc' = "exec"
  /\ race' = {ProofOfStakeHeader}
  /\ UNCHANGED <<config, running, blockNumber, parentHash, tree, txQueue,
                 txData, errorCode, replies, learnedBlocks, neighborBlock,
                 blockResolver, learnedNodes, lastLearnedNodes,
                 blockTransactions, shortcut, shardMsgs, advertised, chain,
                 learnCount, rejected, delivered>>

Alt == CHOOSE b \in alt : TRUE

\* this.blockNumber = alt.header.blockNumber + 1n
AdoptedBlockNumber(b) == b.header.blockNumber + 1

\* the rest of adoptAlternativeBlock, what follows it in its branch of the
\* loop, and the prune that ends the iteration
FinishAdopt ==
  /\ pc = "executed"
  /\ verifyOnly
  /\ tree' = PruneStateCache(Result.newTree)
  /\ parentHash' = HeaderHash(Alt.header)
  /\ blockNumber' = AdoptedBlockNumber(Alt)
  /\ learnedBlocks' = IF shortcut THEN MapDelete(learnedBlocks, blockNumber)
                                  ELSE learnedBlocks
  /\ txQueue' = IF shortcut THEN txQueue ELSE txQueue \o blockTransactions
  /\ chain' = Append(chain, [block |-> Alt,
                             kind |-> IF shortcut THEN "shortcut" ELSE "race"])
  /\ pc' = "head"
  /\ EndIteration
  /\ UNCHANGED <<config, running, txData, errorCode, replies, neighborBlock,
                 blockResolver, learnedNodes, lastLearnedNodes, advertised,
                 learnCount, rejected>>

Next ==
  \/ ExitLoop
  \/ ShortcutAdopt
  \/ Gather
  \/ ExecuteTx
  \/ FinishExec
  \/ StartRace
  \/ Propose
  \/ ShardsSucceed
  \/ ShardFails
  \/ LoseRace
  \/ FinishAdopt
  \/ SubmitTransaction
  \/ LearnNode
  \/ LearnBlock
  \/ Stop

Spec == Init /\ [][Next]_vars

\* the steps of generate(): the event loop runs every continuation that is
\* ready, the PoS timer fires, and the shards answer
GeneratorStep ==
  \/ ExitLoop
  \/ ShortcutAdopt
  \/ Gather
  \/ ExecuteTx
  \/ FinishExec
  \/ StartRace
  \/ Propose
  \/ ShardsSucceed
  \/ LoseRace
  \/ FinishAdopt

\* a step that keeps the number of calls within the bound of these runs
NextLive == Next /\ Calls' <= MaxLiveCalls

SpecLive == Init /\ [][NextLive]_vars /\ WF_vars(GeneratorStep)


\* ------------------------------------------------- the pass on its own

\* one execution pass over a batch fed one transaction at a time, from
\* every configuration, in both modes, with and without learned nodes

ExecConfigs ==
  {Config(0, s, g, d) : s \in BOOLEAN, g \in BOOLEAN, d \in BOOLEAN}

ExecSubmissions ==
  {<<Tx("A", "B", 0, 1), {"B"}>>, <<Tx("A", "B", 0, 1), {}>>,
   <<Tx("A", "B", 1, 2), {"B"}>>, <<Tx("A", "A", 0, 1), {}>>,
   <<Tx("A", "A", 1, 1), {}>>, <<Tx("A", "K", 0, 1), {}>>,
   <<Tx("A", "K", 1, 1), {}>>, <<Tx("A", CONTRACT_CREATION, 0, 1), {}>>,
   <<Tx("X", "A", 1, 1), {}>>, <<Tx("A", "X", 0, 1), {}>>}

InitExec ==
  /\ config \in ExecConfigs
  /\ running = TRUE
  /\ pc = "exec"
  /\ blockNumber = GenesisHeader.blockNumber + 1
  /\ parentHash = HeaderHash(GenesisHeader)
  /\ tree = PruneStateCache(GenesisTree)
  /\ txQueue = <<>>
  /\ txData = <<>>
  /\ errorCode = <<>>
  /\ replies = <<>>
  /\ learnedBlocks = <<>>
  /\ neighborBlock = {}
  /\ blockResolver = FALSE
  /\ learnedNodes \in SUBSET DeepAddrs
  /\ lastLearnedNodes \in SUBSET DeepAddrs
  /\ blockTransactions = <<>>
  /\ verifyOnly \in BOOLEAN
  /\ execBatch = <<>>
  /\ writeSet = EmptyWriteSet
  /\ order = <<>>
  /\ nodesUsed = {}
  /\ shareBag = {}
  /\ lastExec = <<>>
  /\ executionResult = {}
  /\ nodesAdvertised = {}
  /\ alt = {}
  /\ shortcut = FALSE
  /\ shardMsgs = <<>>
  /\ advertised = <<>>
  /\ chain = <<>>
  /\ learnCount = 0
  /\ race = {}
  /\ rejected = 0
  /\ delivered = {}

\* the next transaction of the batch under execution
FeedTx ==
  /\ pc = "exec"
  /\ execBatch = <<>>
  /\ Len(txData) < MaxBatch
  /\ \E s \in ExecSubmissions :
       LET td == [id |-> Len(txData) + 1, tx |-> s[1], proofs |-> s[2]] IN
       /\ txData' = Append(txData, td)
       /\ errorCode' = Append(errorCode, "none")
       /\ execBatch' = <<td>>
  /\ UNCHANGED <<config, running, pc, blockNumber, parentHash, tree, txQueue,
                 replies, learnedBlocks, neighborBlock, blockResolver,
                 learnedNodes, lastLearnedNodes, blockTransactions, alt,
                 shortcut, shardMsgs, advertised, chain, learnCount, race, rejected, delivered>>
  /\ UNCHANGED <<verifyOnly, writeSet, order, nodesUsed, shareBag, lastExec,
                 executionResult, nodesAdvertised>>

NextExec ==
  \/ FeedTx
  \/ ExecuteTx
  \/ FinishExec

SpecExec == InitExec /\ [][NextExec]_vars


\* ------------------------------------------------------------ properties

Last(q) == q[Len(q)]

Range(q) == {q[i] : i \in DOMAIN q}

LastTd == lastExec[1].td

LastCode == lastExec[1].code

WriteSetBefore == lastExec[1].before

\* the account the pass saw for address a just before the last transaction:
\* the write-set entry, else the account of the tree, else (for an absent
\* sender under generateFromAccounts) the generated account
SeenBefore(a) ==
  IF WriteSetBefore[a].exists THEN WriteSetBefore[a]
  ELSE IF tree.accts[a].exists THEN tree.accts[a]
  ELSE Acct(LastTd.tx.nonce, MAX_256_UNSIGNED, FALSE)

\* the account of address a after the last transaction
SeenAfter(a) == IF writeSet[a].exists THEN writeSet[a] ELSE SeenBefore(a)

\* C1: every finalized block advances blockNumber by exactly one, so that
\* blockNumber is the genesis height plus one plus the number of blocks
\* finalized, and parentHash is the hash of the header of the block finalized
\* last, which is the block of the height just left.
C1_HeightAndParent ==
  /\ blockNumber = GenesisHeader.blockNumber + 1 + Len(chain)
  /\ chain # <<>> =>
       /\ parentHash = HeaderHash(Last(chain).block.header)
       /\ Last(chain).block.header.blockNumber + 1 = blockNumber

C1_Witness ==
  /\ pc = "head"
  /\ Len(chain) >= 2
  /\ \E i \in DOMAIN chain : chain[i].kind = "own"
  /\ \E i \in DOMAIN chain : chain[i].kind # "own"

\* C2: at every loop-iteration boundary after a block was finalized, the root
\* hash of the live tree is the stateRoot of the header of the block
\* finalized last.
C2_RootIsStateRoot ==
  (pc = "head" /\ chain # <<>>) =>
     RootHash(tree) = Last(chain).block.header.stateRoot

\* C3: a peer block whose verify-mode re-execution yields a root other than
\* its header's stateRoot is rejected: the step that ends its adoption leaves
\* blockNumber, parentHash and the live tree as they were.
C3_MismatchRejected ==
  [][(pc = "executed" /\ verifyOnly /\ Result.stateRoot # Alt.header.stateRoot)
       => UNCHANGED <<blockNumber, parentHash, tree>>]_vars

\* C4: when a height that gathered a batch ends, every transaction of the
\* batch has had its reply handle invoked exactly once or is back in the
\* queue.
C4_RepliedOnceOrRequeued ==
  [][(pc \in {"shards", "executed"} /\ pc' = "head" /\ ~shortcut)
       => \A i \in DOMAIN blockTransactions :
            \/ Len(replies'[blockTransactions[i]]) = 1
            \/ blockTransactions[i] \in Range(txQueue')]_vars

\* C5: a transaction that ends with SUCCESS leaves the sum of the balances of
\* its sender and its recipient as it was before the transaction.
C5_ValueConserved ==
  (lastExec # <<>> /\ LastCode = "SUCCESS") =>
     LET f == LastTd.tx.from
         t == LastTd.tx.to
     IN IF f = t
          THEN SeenAfter(f).balance = SeenBefore(f).balance
          ELSE SeenAfter(f).balance + SeenAfter(t).balance
                 = SeenBefore(f).balance + SeenBefore(t).balance

\* C6: after a transaction that ends with SUCCESS the write-set holds an
\* entry for its sender whose nonce is one greater than the nonce the sender
\* had just before the transaction.
C6_SenderNonceBumped ==
  (lastExec # <<>> /\ LastCode = "SUCCESS") =>
     /\ writeSet[LastTd.tx.from].exists
     /\ writeSet[LastTd.tx.from].nonce = SeenBefore(LastTd.tx.from).nonce + 1

\* C7: a transaction that ends with INVALID leaves the write-set and the
\* order as they were, and the pass goes on with the transactions after it.
C7_InvalidIsolated ==
  [][(pc = "exec" /\ execBatch # <<>> /\ lastExec'[1].code = "INVALID")
       => /\ writeSet' = writeSet
          /\ order' = order
          /\ pc' = "exec"
          /\ execBatch' = Tail(execBatch)]_vars

C7_Witness ==
  /\ pc = "exec"
  /\ Len(errorCode) = 3
  /\ errorCode = <<"SUCCESS", "INVALID", "SUCCESS">>
  /\ Len(order) = 2
  /\ writeSet["A"].exists

\* C8: the nonce of an account of the live tree never decreases and an
\* account never leaves the tree; within a pass the nonce of a write-set entry
\* never decreases and a new entry starts no lower than the tree's nonce.
C8_NonceMonotone ==
  [][/\ \A a \in Addr :
          tree.accts[a].exists =>
            /\ tree'.accts[a].exists
            /\ tree'.accts[a].nonce >= tree.accts[a].nonce
     /\ (pc = "exec" /\ execBatch # <<>>) =>
          \A a \in Addr :
            /\ writeSet[a].exists =>
                 /\ writeSet'[a].exists
                 /\ writeSet'[a].nonce >= writeSet[a].nonce
            /\ (writeSet'[a].exists /\ tree.accts[a].exists) =>
                 writeSet'[a].nonce >= tree.accts[a].nonce]_vars

C8_Witness ==
  /\ pc = "head"
  /\ Len(chain) >= 2
  /\ tree.accts["A"].nonce = 2
  /\ \E i \in DOMAIN chain : chain[i].kind # "own"

C10_OnlyLoopInstalls ==
  [][(tree' # tree \/ blockNumber' # blockNumber \/ parentHash' # parentHash)
       => /\ pc' = "head"
          /\ \/ pc = "shards"
             \/ pc = "executed" /\ verifyOnly
          /\ tree' = PruneStateCache(Result.newTree)]_vars

C10_Witness ==
  /\ pc = "head"
  /\ Len(chain) >= 2
  /\ \E i \in DOMAIN chain : chain[i].kind = "own"
  /\ \E i \in DOMAIN chain : chain[i].kind = "race"
  /\ RootHash(tree) # GenesisAccounts
  /\ Len(txData) > 0


\* the peer block recorded for the height whose race is pending
PendingPeerBlock ==
  {b \in neighborBlock : pc = "race" /\ b.header.blockNumber = blockNumber}

\* C11: a peer block for height N handed to learnBlock while the race for
\* height N is pending is never dropped: in every step it stays recorded, or
\* it is kept in learnedBlocks, or, when the race ends, it is the block whose
\* adoption begins; and no step makes blockNumber skip a height.
C11_PeerBlockNotDiscarded ==
  [][/\ \A b \in PendingPeerBlock :
          \/ pc' = "race" /\ b \in neighborBlock'
          \/ \E k \in DOMAIN learnedBlocks' : learnedBlocks'[k] = b
          \/ pc' = "exec" /\ alt' = {b}
     /\ blockNumber' \in {blockNumber, blockNumber + 1}]_vars

\* C12: when a peer block for the current height is recorded while the race
\* is pending, the race is settled by the peer-block branch: the step that
\* ends the race has Promise.race yield the peer block, not the header the
\* PoS timer resolves with.
C12_PeerBlockResolvesRace ==
  [][(PendingPeerBlock # {} /\ pc' # "race")
       => (race' = neighborBlock /\ race' # {ProofOfStakeHeader})]_vars

\* C13: a lost race puts the batch back at the head of the queue: the step
\* that ends the adoption leaves the queue as the batch, in its order,
\* followed by what the queue held, so that the next gathering takes the
\* requeued transactions before those submitted during the race.
C13_RequeuedAtHead ==
  [][(pc = "executed" /\ verifyOnly /\ ~shortcut /\ pc' = "head")
       => txQueue' = blockTransactions \o txQueue]_vars

\* C14: while a batch is being executed no shard update of an earlier
\* proposal is outstanding: every UpdateMsg of the block proposed at the
\* height before has been answered.
C14_ShardsBeforeNextHeight ==
  pc \in {"exec", "executed"} => shardMsgs = <<>>

C14_Witness ==
  /\ pc = "exec"
  /\ chain # <<>>
  /\ Last(chain).kind = "own"
  /\ Last(chain).block.header.blockNumber + 1 = blockNumber

\* C15: a proposal counts as made whatever the shards answer: every step that
\* ends the wait for the shard replies, a failed reply included, installs the
\* new tree, makes the hash of the proposed header the parentHash, advances
\* blockNumber by one and returns the loop to its head.
C15_ShardErrorStillProposed ==
  [][(pc = "shards" /\ pc' # "shards")
       => /\ pc' = "head"
          /\ tree' = PruneStateCache(Result.newTree)
          /\ parentHash' = HeaderHash(Proposed.header)
          /\ blockNumber' = blockNumber + 1]_vars

\* the shards whose UpdateMsg holds an operation on address a
ShardsOf(a) == {i \in DOMAIN shardMsgs :
                  \E op \in shardMsgs[i].operations : op.account = a}

\* C16: a proposal sends exactly 16 UpdateMsgs, one per shard 0..15, each with
\* the block and the root bytes; every write-set entry is an operation of
\* exactly one of them, the one of the top nibble of its hashed address, with
\* the balance and nonce of the entry; and no message holds anything else,
\* so a shard without a matching entry gets zero operations.
C16_ShardRouting ==
  pc = "shards" =>
    /\ DOMAIN shardMsgs = 0..15
    /\ \A i \in DOMAIN shardMsgs :
         /\ shardMsgs[i].rlpBlock = Last(advertised)
         /\ shardMsgs[i].merkleTreeNodes = RootHash(tree)
         /\ \A op \in shardMsgs[i].operations :
              /\ Result.writeSet[op.account].exists
              /\ TopNibble(op.account) = i
              /\ op.balance = Result.writeSet[op.account].balance
              /\ op.nonce = Result.writeSet[op.account].nonce
         /\ \A op1, op2 \in shardMsgs[i].operations :
              op1.account = op2.account => op1 = op2
    /\ \A a \in Addr :
         Result.writeSet[a].exists => ShardsOf(a) = {TopNibble(a)}

\* a proposal whose write-set has entries for two shards
C16_Witness ==
  /\ pc = "shards"
  /\ Result.writeSet["A"].exists
  /\ Result.writeSet["B"].exists
  /\ shardMsgs[3].operations # {}
  /\ shardMsgs[12].operations # {}
  /\ shardMsgs[0].operations = {}

\* the state of the generator that the RPC handlers share with the loop,
\* the queue and the reply log apart
SharedState ==
  <<config, running, pc, blockNumber, parentHash, tree, learnedBlocks,
    neighborBlock, blockResolver, learnedNodes, lastLearnedNodes,
    blockTransactions, shardMsgs, advertised, chain>>

\* C17: a submitTransaction call either appends exactly one record to the tail
\* of the queue and invokes no reply, or replies INVALID exactly once and
\* leaves the queue, the records and every other shared state as they were.
C17_SubmitQueuesOrRejects ==
  [][(Len(txData') # Len(txData) \/ rejected' # rejected)
       => /\ UNCHANGED SharedState
          /\ \/ /\ Len(txData') = Len(txData) + 1
                /\ txQueue' = Append(txQueue, txData'[Len(txData')].id)
                /\ \A id \in DOMAIN txData : txData'[id] = txData[id]
                /\ replies' = Append(replies, <<>>)
                /\ rejected' = rejected
             \/ /\ rejected' = rejected + 1
                /\ UNCHANGED <<txQueue, txData, errorCode, replies>>]_vars

C17_Witness ==
  /\ rejected >= 1
  /\ Len(txQueue) >= 2
  /\ pc = "race"

\* generate() rejected out of proposeBlock: a shard answered with an error
ShardFailed == pc = "failed" /\ shardMsgs # <<>>

\* C18: once running is false the loop starts no further height and returns
\* only at its head, after the height in progress has been finalized; and
\* provided the timer fires and the shards answer without error, it returns.
C18_CooperativeShutdown ==
  /\ [][~running =>
          /\ pc = "head" => pc' \in {"head", "done"}
          /\ pc' = "done" => pc \in {"head", "done"}
          /\ (pc \in {"race", "shards", "exec", "executed"} /\ pc' = "head")
               => Len(chain') = Len(chain) + 1]_vars
  /\ ~running ~> (pc = "done" \/ ShardFailed)

\* the loop returned after it was stopped while a proposal was in flight
C18_Witness ==
  /\ pc = "done"
  /\ chain # <<>>
  /\ Last(chain).kind = "own"
  /\ ~running

\* C19: a reply handle is invoked only once the execution pass of the height
\* that gathered its transaction has completed, and with the errorCode the
\* pass assigned: SUCCESS exactly when the pass pushed the transaction onto
\* the order, INVALID otherwise.
C19_ReplyAfterExecution ==
  [][\A id \in DOMAIN replies :
       replies'[id] # replies[id] =>
         /\ pc = "executed" /\ ~verifyOnly /\ execBatch = <<>>
         /\ executionResult # {}
         /\ id \in Range(blockTransactions)
         /\ replies'[id] = Append(replies[id], errorCode[id])
         /\ errorCode[id] = IF \E td \in Range(Result.order) : td.id = id
                               THEN "SUCCESS" ELSE "INVALID"]_vars

\* a batch replied with a SUCCESS and an INVALID
C19_Witness ==
  /\ pc = "race"
  /\ \E id1, id2 \in Range(blockTransactions) :
       /\ Last(replies[id1]) = "SUCCESS"
       /\ Last(replies[id2]) = "INVALID"

\* previous becomes what current held, and current becomes empty
Rotated == lastLearnedNodes' = learnedNodes /\ learnedNodes' = {}

\* C20: the learned-node tables rotate for every block that is finalized, in
\* the winning branch when the proposal is made and for a peer block when its
\* adoption completes; any other step that changes the current table is a
\* learnNode that only adds to it and leaves the previous table alone.
C20_LearnedNodesRotate ==
  [][/\ (pc = "race" /\ pc' = "shards") => Rotated
     /\ (pc = "executed" /\ verifyOnly /\ pc' = "head") => Rotated
     /\ (~Rotated /\ <<learnedNodes, lastLearnedNodes>>' # <<learnedNodes, lastLearnedNodes>>)
          => /\ learnedNodes \subseteq learnedNodes'
             /\ lastLearnedNodes' = lastLearnedNodes]_vars

\* C21: a transaction whose value exceeds the balance of its sender ends with
\* INVALID and changes nothing, so that every balance recorded in the
\* write-set lies within 0..2^256-1.
C21_BalancesInRange ==
  /\ \A a \in Addr :
       writeSet[a].exists => writeSet[a].balance \in 0..MAX_256_UNSIGNED
  /\ (lastExec # <<>> /\ LastTd.tx.value > SeenBefore(LastTd.tx.from).balance)
       => (LastCode = "INVALID" /\ writeSet = WriteSetBefore)

\* C22: a transaction from an existing sender with the matching nonce to a
\* recipient that is absent from the tree and the write-set ends with SUCCESS;
\* the write-set then holds the recipient with nonce 0 and balance tx.value
\* and the sender with its nonce incremented and its balance debited.
C22_AbsentRecipientCreated ==
  (/\ lastExec # <<>>
   /\ LastTd.tx.to \in Addr
   /\ LastTd.tx.to # LastTd.tx.from
   /\ ~tree.accts[LastTd.tx.to].exists
   /\ ~WriteSetBefore[LastTd.tx.to].exists
   /\ LastTd.tx.to \notin tree.stubs
   /\ tree.accts[LastTd.tx.from].exists \/ WriteSetBefore[LastTd.tx.from].exists
   /\ LastTd.tx.nonce = SeenBefore(LastTd.tx.from).nonce)
    => /\ LastCode = "SUCCESS"
       /\ writeSet[LastTd.tx.to] = Acct(0, LastTd.tx.value, FALSE)
       /\ writeSet[LastTd.tx.from] =
            [SeenBefore(LastTd.tx.from) EXCEPT
               !.nonce = @ + 1, !.balance = @ - LastTd.tx.value]

\* the last transaction has the matching nonce, an existing sender and a
\* distinct existing recipient without code
SimpleTransfer ==
  /\ lastExec # <<>>
  /\ LastTd.tx.to \in Addr
  /\ LastTd.tx.to # LastTd.tx.from
  /\ tree.accts[LastTd.tx.from].exists \/ WriteSetBefore[LastTd.tx.from].exists
  /\ tree.accts[LastTd.tx.to].exists \/ WriteSetBefore[LastTd.tx.to].exists
  /\ ~SeenBefore(LastTd.tx.to).code
  /\ LastTd.tx.nonce = SeenBefore(LastTd.tx.from).nonce

\* getAccount finds address a for the last transaction: in the write-set, in
\* the cached part of the tree, or below a stub that the proofs of the
\* transaction or the previous learned nodes resolve
Readable(a) ==
  \/ WriteSetBefore[a].exists
  \/ a \notin tree.stubs
  \/ a \in ProofsFor(LastTd, verifyOnly, config, shareBag) \cup lastLearnedNodes

\* the outcome of a simple transfer in the write-set and in the tree built
\* from it
TransferApplied ==
  LET f == LastTd.tx.from
      t == LastTd.tx.to
      v == LastTd.tx.value
      newTree == GenerateCopyOnWriteTree(tree, writeSet, nodesUsed)
      fromAfter == [SeenBefore(f) EXCEPT !.nonce = @ + 1, !.balance = @ - v]
      toAfter == [SeenBefore(t) EXCEPT !.balance = @ + v]
  IN /\ LastCode = "SUCCESS"
     /\ writeSet[f] = fromAfter
     /\ writeSet[t] = toAfter
     /\ newTree.accts[f] = fromAfter
     /\ newTree.accts[t] = toAfter
     /\ RootHash(newTree) # RootHash(tree)

\* C23 as stated: a transaction with the matching nonce from an existing
\* sender to a distinct existing recipient without code succeeds; write-set
\* and new tree hold the sender with nonce+1 and balance-value and the
\* recipient with balance+value and its nonce, and the state root changes.
C23_TransferApplied == SimpleTransfer => TransferApplied

\* C23 amended: the same outcome for such a transaction whose sender and
\* recipient the pass can read (write-set, cached tree, or a stub resolved by
\* the proofs at hand); without the witness the transaction ends INVALID.
C23_ReadableTransferApplied ==
  (SimpleTransfer /\ Readable(LastTd.tx.from) /\ Readable(LastTd.tx.to))
    => TransferApplied

C23_Witness ==
  /\ SimpleTransfer
  /\ Readable(LastTd.tx.from)
  /\ Readable(LastTd.tx.to)
  /\ LastTd.tx.to \in tree.stubs
  /\ ~WriteSetBefore[LastTd.tx.to].exists
  /\ LastCode = "SUCCESS"
  /\ writeSet[LastTd.tx.to].balance = LastTd.tx.value

\* the nonce of the last transaction differs from the current nonce of its
\* sender (write-set first, then tree)
NonceMismatch ==
  /\ lastExec # <<>>
  /\ tree.accts[LastTd.tx.from].exists \/ WriteSetBefore[LastTd.tx.from].exists
  /\ LastTd.tx.nonce # SeenBefore(LastTd.tx.from).nonce

C25_GatherTakesHead ==
  [][(pc = "head" /\ pc' = "exec" /\ ~shortcut')
       => LET k == IF config.maxTxPerBlock = 0 THEN Len(txQueue)
                   ELSE Min(config.maxTxPerBlock, Len(txQueue))
          IN /\ blockTransactions' = [i \in 1..k |-> txQueue[i]]
             /\ execBatch' = [i \in 1..k |-> txData[txQueue[i]]]
             /\ txQueue' = [i \in 1..(Len(txQueue) - k) |-> txQueue[k + i]]
             /\ (config.maxTxPerBlock = 0 => txQueue' = <<>>)]_vars

C25_Witness ==
  /\ pc = "exec"
  /\ ~shortcut
  /\ config.maxTxPerBlock = 1
  /\ Len(blockTransactions) = 1
  /\ txQueue # <<>>
  /\ lastExec = <<>>

\* the transactions of the gathered batch that ended with SUCCESS, in the
\* order in which they stood in the queue
SucceededOfBatch ==
  LET ids == SelectSeq(blockTransactions, LAMBDA id : errorCode[id] = "SUCCESS")
  IN [i \in 1..Len(ids) |-> txData[ids[i]].tx]

\* C26: the transactions of a proposed block and the entries of the tree of
\* its transactions root are exactly the transactions of the batch that ended
\* with SUCCESS, in queue order; a batch without a successful transaction
\* gives an empty block.
C26_BlockHoldsSucceeded ==
  pc = "shards" =>
    /\ Proposed.transactions = SucceededOfBatch
    /\ Proposed.header.transactionsRoot = SucceededOfBatch
    /\ ((\A i \in DOMAIN blockTransactions :
           errorCode[blockTransactions[i]] # "SUCCESS")
          => Proposed.transactions = <<>>)

C26_Witness ==
  /\ pc = "shards"
  /\ Len(blockTransactions) = 3
  /\ Len(Proposed.transactions) = 2
  /\ Proposed.transactions[1] # Proposed.transactions[2]
  /\ errorCode[blockTransactions[2]] = "INVALID"

\* C27: when learnedBlocks holds an entry for blockNumber at the head of a
\* loop iteration, the iteration adopts that block and removes the entry: the
\* queue is not gathered, no race and no shard update is started, no client
\* is replied, and the iteration ends at the next height.
C27_ShortcutAdoption ==
  [][/\ (pc = "head" /\ running /\ blockNumber \in DOMAIN learnedBlocks
           /\ pc' # "head")
          => /\ pc' = "exec"
             /\ shortcut'
             /\ verifyOnly'
             /\ alt' = {learnedBlocks[blockNumber]}
     /\ (shortcut \/ shortcut')
          => /\ UNCHANGED <<txQueue, blockTransactions, replies, shardMsgs,
                            advertised, race, blockResolver>>
             /\ blockTransactions = <<>>
             /\ pc' \notin {"race", "shards"}
     /\ (shortcut /\ pc = "executed")
          => /\ pc' = "head"
             /\ blockNumber' = blockNumber + 1
             /\ blockNumber \notin DOMAIN learnedBlocks'
             /\ Last(chain').block = Alt
             /\ Len(chain') = Len(chain) + 1]_vars

C27_Witness ==
  /\ pc = "head"
  /\ chain # <<>>
  /\ Last(chain).kind = "shortcut"
  /\ blockNumber = Last(chain).block.header.blockNumber + 1
  /\ txQueue # <<>>

\* C28: learnBlock stores a block only when its header.blockNumber is greater
\* than blockNumber, so that every key of learnedBlocks is at least
\* blockNumber at the head of the loop, and greater than blockNumber while an
\* iteration that did not take the shortcut is in progress.
C28_NoPassedHeightStored ==
  /\ \A k \in DOMAIN learnedBlocks :
       /\ k >= blockNumber
       /\ learnedBlocks[k].header.blockNumber = k
  /\ (~shortcut /\ pc \in {"exec", "executed", "race", "shards"})
       => \A k \in DOMAIN learnedBlocks : k > blockNumber

C28_Witness ==
  /\ pc = "head"
  /\ chain # <<>>
  /\ blockNumber \in DOMAIN learnedBlocks
  /\ learnCount > Cardinality(DOMAIN learnedBlocks)

\* C29: a proposed block is advertised to the neighbors only after all 16
\* shard updates have succeeded, that is, every advertised block is a block
\* the generator finalized; a block whose shard updates failed is never
\* advertised.
C29_AdvertisedAfterShards ==
  /\ \A i \in DOMAIN advertised :
       \E j \in DOMAIN chain :
         chain[j].kind = "own" /\ chain[j].block = advertised[i]
  /\ (pc = "failed" /\ shardMsgs # <<>>) => Proposed \notin Range(advertised)

\* C30: every UpdateMsg sent for a proposed block carries the root node of
\* the tree whose root hash is the stateRoot of the header of that block.
C30_UpdateCarriesPostState ==
  pc = "shards" =>
    \A i \in DOMAIN shardMsgs :
      shardMsgs[i].merkleTreeNodes = shardMsgs[i].rlpBlock.header.stateRoot

\* C31: in proposal mode a pass that used a node for which no witness of the
\* batch supplied bytes fails fatally: nothing is advertised or proposed,
\* blockNumber, parentHash and the live tree stay as they are, then and
\* afterwards; in verify mode the pass completes whatever nodes it used and
\* hands no node to the neighbors.
C31_MissingUsedNodeIsFatal ==
  [][/\ (pc = "exec" /\ execBatch = <<>> /\ ~verifyOnly
           /\ \E n \in nodesUsed : n \notin shareBag)
          => /\ pc' = "failed"
             /\ nodesAdvertised' = {}
             /\ executionResult' = {}
             /\ UNCHANGED <<blockNumber, parentHash, tree, shardMsgs,
                            advertised, chain>>
     /\ (pc = "exec" /\ execBatch = <<>> /\ verifyOnly)
          => /\ pc' = "executed"
             /\ nodesAdvertised' = {}
     /\ pc = "failed"
          => UNCHANGED <<pc, blockNumber, parentHash, tree, shardMsgs,
                         advertised, chain, nodesAdvertised>>]_vars

C31_Witness ==
  /\ pc = "failed"
  /\ shardMsgs = <<>>
  /\ ~verifyOnly
  /\ order # <<>>
  /\ \E n \in nodesUsed : n \notin shareBag /\ n \in lastLearnedNodes

\* C32: over the whole run the reply handle of a submitted transaction is
\* invoked at most once, also when the transaction was requeued after a lost
\* race and gathered again at a later height.
C32_RepliedAtMostOnce ==
  \A id \in DOMAIN replies : Len(replies[id]) <= 1

\* C33: when a height that gathered a batch ends, a transaction of the batch
\* whose client was replied SUCCESS is contained in the block finalized at
\* that height.
C33_SuccessMeansIncluded ==
  [][(pc \in {"shards", "executed"} /\ pc' = "head" /\ ~shortcut)
       => \A i \in DOMAIN blockTransactions :
            (/\ replies[blockTransactions[i]] # <<>>
             /\ Last(replies[blockTransactions[i]]) = "SUCCESS")
              => \E k \in DOMAIN Last(chain').block.transactions :
                   Last(chain').block.transactions[k]
                     = txData[blockTransactions[i]].tx]_vars

\* the transactions held by the iteration in progress: the local
\* blockTransactions of generate(), which is gone once generate() has returned
\* or thrown
BatchInProgress ==
  IF pc \in {"done", "failed"} THEN {} ELSE Range(blockTransactions)

\* C34: at every moment every accepted transaction is in txQueue, in the batch
\* of the height in progress, or has had its reply handle invoked.
C34_NoSilentLoss ==
  \A id \in DOMAIN txData :
    \/ id \in Range(txQueue)
    \/ id \in BatchInProgress
    \/ replies[id] # <<>>

\* C35: every peer block under adoption, on the race-loss path and on the
\* shortcut path, has header.blockNumber equal to blockNumber and
\* header.parentHash equal to parentHash, so that the finalized blocks form a
\* linked chain.
C35_AdoptedBlockLinks ==
  /\ alt # {} => /\ Alt.header.blockNumber = blockNumber
                 /\ Alt.header.parentHash = parentHash
  /\ \A j \in DOMAIN chain :
       /\ chain[j].block.header.blockNumber = j
       /\ chain[j].block.header.parentHash =
            IF j = 1 THEN HeaderHash(GenesisHeader)
            ELSE HeaderHash(chain[j - 1].block.header)

\* C36: no own block is proposed for a height (no shard update is
\* outstanding for it) when a peer block for that height with the verifier's
\* parentHash was delivered through learnBlock before the race was decided;
\* the block adopted on the race-loss path is such a delivered block, and it
\* is a block for the height in progress.
C36_PeerBlockPreempts ==
  /\ pc = "shards" => delivered = {}
  /\ (alt # {} /\ ~shortcut)
       => /\ alt \subseteq delivered
          /\ Alt.header.blockNumber = blockNumber

\* the loop no longer runs: it was stopped, or generate() threw
LoopEnded == ~running \/ pc \in {"done", "failed"}

\* the runs in which nobody stops the loop and every shard answers without
\* error, with the number of calls within the bound of the liveness runs
NextReply ==
  /\ \/ ShortcutAdopt
     \/ Gather
     \/ ExecuteTx
     \/ FinishExec
     \/ StartRace
     \/ Propose
     \/ ShardsSucceed
     \/ LoseRace
     \/ FinishAdopt
     \/ SubmitTransaction
     \/ LearnBlock
     \/ LearnNode
  /\ Calls' <= MaxLiveCalls

SpecReply == Init /\ [][NextReply]_vars /\ WF_vars(GeneratorStep)

\* C37: provided the loop keeps running, the PoS timers fire and the shard
\* updates succeed, every transaction accepted into the queue eventually has
\* its reply handle invoked, also when maxTxPerBlock is set and when races
\* are lost; in a run cut at MaxHeight a transaction not yet replied is still
\* in the queue.
C37_EventuallyReplied ==
  \A id \in 1..MaxLiveCalls :
    (id \in DOMAIN txData)
      ~> (\/ id \in DOMAIN replies /\ replies[id] # <<>>
          \/ LoopEnded
          \/ blockNumber > MaxHeight /\ id \in Range(txQueue))

\* a transaction submitted during a race that was lost is gathered and
\* replied at the next height, one transaction per block
C37_Witness ==
  /\ pc = "race"
  /\ running
  /\ config.maxTxPerBlock = 1
  /\ blockNumber = 2
  /\ chain # <<>>
  /\ Last(chain).kind = "race"
  /\ \E id \in Range(blockTransactions) : Len(replies[id]) = 1

====
